---- MODULE Spec2Model ----
(***************************************************************************)
(* A model of the Critters class of src/src/index.js: process(html,        *)
(* cssFiles) with its two batches of tasks, embedLinkedStylesheet (one     *)
(* per <link rel="stylesheet">) and processStyle (one per <style>).        *)
(*                                                                         *)
(* The document is a head and a body, each an ordered list of nodes.  A    *)
(* stylesheet text is modelled by the rule tree the CSS parser gives for   *)
(* it, a selector by its list of tokens, a declaration value by its list   *)
(* of words.  The async functions contain no await, so every task runs to  *)
(* completion when Array.map calls it: tasks run one after the other in    *)
(* the order of the queried list.                                          *)
(***************************************************************************)
EXTENDS Integers, Sequences, FiniteSets, TLC

\* ------------------------------------------------------------------ bounds
MaxLinks == 2      \* <link rel="stylesheet"> elements of an input document
MaxRules == 2      \* top-level rules of the inline stylesheet of an input

\* ------------------------------------------------------------- JS values
Null  == "null"    \* a missing attribute (getAttribute gives null) / undefined
Unset == "unset"   \* an option that was not given

\* what a rejected task carries
NoError       == "none"
SelectorError == "SyntaxError: querySelector"
ParseError    == "Error: parseStylesheet"

TriState == {Unset, "true", "false"}

\* ------------------------------------------------------------------ nodes
NoJs == [preamble |-> "", u |-> "", m |-> Null]

BlankNode ==
  [id |-> 0, tag |-> "", rel |-> Null, as |-> Null, href |-> Null,
   media |-> Null, onload |-> Null, crossorigin |-> Null, name |-> Null,
   text |-> "none", sheet |-> <<>>, js |-> NoJs, kids |-> <<>>]

\* document.createElement(tag)
createElement(id, tag) == [BlankNode EXCEPT !.id = id, !.tag = tag]

\* <link rel="stylesheet" href=... media=...> of the parsed input
LinkNode(id, href, media) ==
  [createElement(id, "link") EXCEPT !.rel = "stylesheet", !.href = href,
                                    !.media = media]

\* a <style> and its text node: text is "css" when the text is a stylesheet
\* (sheet is what it parses to), "undefined" when the text node was made
\* from undefined, "none" when the element has no child node
StyleNode(id, text, sheet) ==
  [createElement(id, "style") EXCEPT !.text = text, !.sheet = sheet]

ElementNode(id, tag) == createElement(id, tag)

\* --------------------------------------------------------- DOM operations
AllNodes(doc) == doc.head \o doc.body

IndexOf(seq, id) ==
  IF \E i \in 1..Len(seq) : seq[i].id = id
  THEN CHOOSE i \in 1..Len(seq) : seq[i].id = id
  ELSE 0

InSeq(seq, id) == \E i \in 1..Len(seq) : seq[i].id = id

\* node.parentNode, as the name of the list that holds the node
parentNode(doc, id) ==
  IF InSeq(doc.head, id) THEN "head"
  ELSE IF InSeq(doc.body, id) THEN "body" ELSE Null

NodeById(doc, id) ==
  LET all == AllNodes(doc) IN all[IndexOf(all, id)]

InsertAt(seq, i, node) ==
  SubSeq(seq, 1, i) \o <<node>> \o SubSeq(seq, i + 1, Len(seq))

RemoveFrom(seq, id) == SelectSeq(seq, LAMBDA n : n.id # id)

\* parent.removeChild(node)
removeChild(doc, id) ==
  [head |-> RemoveFrom(doc.head, id), body |-> RemoveFrom(doc.body, id)]

\* link.parentNode.insertBefore(node, link.nextSibling): node becomes the
\* sibling right after the reference node
insertAfter(doc, refId, node) ==
  IF parentNode(doc, refId) = "head"
  THEN [doc EXCEPT !.head = InsertAt(@, IndexOf(@, refId), node)]
  ELSE [doc EXCEPT !.body = InsertAt(@, IndexOf(@, refId), node)]

\* parent.appendChild(node): a node already in the tree is moved
appendChild(doc, parent, node) ==
  LET d == removeChild(doc, node.id) IN
  IF parent = "head" THEN [d EXCEPT !.head = Append(@, node)]
  ELSE [d EXCEPT !.body = Append(@, node)]

\* element.setAttribute / removeAttribute / appendChild write the node back
replaceNode(doc, node) ==
  [head |-> [i \in 1..Len(doc.head) |->
               IF doc.head[i].id = node.id THEN node ELSE doc.head[i]],
   body |-> [i \in 1..Len(doc.body) |->
               IF doc.body[i].id = node.id THEN node ELSE doc.body[i]]]

\* document.querySelectorAll('link[rel="stylesheet"]'), in document order
RelStylesheetLinks(doc) ==
  LET hit == SelectSeq(AllNodes(doc),
                       LAMBDA n : n.tag = "link" /\ n.rel = "stylesheet")
  IN [i \in 1..Len(hit) |-> hit[i].id]

\* document.querySelectorAll("style"), in document order
StyleElements(doc) ==
  LET hit == SelectSeq(AllNodes(doc), LAMBDA n : n.tag = "style")
  IN [i \in 1..Len(hit) |-> hit[i].id]

\* ------------------------------------------------------------ stylesheets
\* A rule of the parsed stylesheet: type "rule" (selectors, declarations),
\* "font-face" (declarations) or "media" (nested rules).
StyleRule(selectors, declarations) ==
  [type |-> "rule", selectors |-> selectors, declarations |-> declarations,
   rules |-> <<>>]

FontFaceRule(declarations) ==
  [type |-> "font-face", selectors |-> <<>>, declarations |-> declarations,
   rules |-> <<>>]

ContainerRule(rules) ==
  [type |-> "media", selectors |-> <<>>, declarations |-> <<>>,
   rules |-> rules]

Decl(property, value) == [property |-> property, value |-> value]

\* rule.rules is an array only for the rules that nest other rules
HasRules(rule) == rule.type = "media"

\* s occurs in t as a run of consecutive words: String.prototype.indexOf
IsInfix(s, t) ==
  \E i \in 0..(Len(t) - Len(s)) : SubSeq(t, i + 1, i + Len(s)) = s

\* sel.replace(/::?(?:[a-z-]+)([.[#~&^:*]|\s|\n|$)/gi, "$1"): the
\* pseudo-class and pseudo-element tokens are taken out of the selector
PseudoTokens == {":hover", "::before"}

StripPseudo(sel) == SelectSeq(sel, LAMBDA t : t \notin PseudoTokens)

\* document.querySelector(sel): raises on an empty selector and on one
\* that is not a selector; else the first element with the selector's tag
QuerySelectorRaises(sel) ==
  sel = <<>> \/ \E i \in 1..Len(sel) : sel[i] = "!"

QuerySelectorFinds(doc, sel) ==
  \A i \in 1..Len(sel) :
     \E k \in 1..Len(AllNodes(doc)) : AllNodes(doc)[k].tag = sel[i]

\* decl.property.match(/\bfont\b/i)
IsFontProperty(property) == property \in {"font", "font-family"}

\* first pass, the callback of lines 216-245 on one rule: what the rule
\* becomes, whether it stays, the font corpus after it, whether it threw
FontValues(declarations) ==
  LET fontDecls == SelectSeq(declarations,
                             LAMBDA d : IsFontProperty(d.property))
      RECURSIVE Join(_)
      Join(ds) == IF ds = <<>> THEN <<>> ELSE Head(ds).value \o Join(Tail(ds))
  IN Join(fontDecls)

PruneRule(rule, doc, criticalFonts) ==
  IF rule.type = "rule"
  THEN
    IF \E i \in 1..Len(rule.selectors) :
          QuerySelectorRaises(StripPseudo(rule.selectors[i]))
    THEN [rule |-> rule, keep |-> FALSE, criticalFonts |-> criticalFonts,
          threw |-> TRUE]
    ELSE
      LET matched == SelectSeq(rule.selectors,
                       LAMBDA s : QuerySelectorFinds(doc, StripPseudo(s)))
      IN IF matched = <<>>
         THEN [rule |-> [rule EXCEPT !.selectors = matched], keep |-> FALSE,
               criticalFonts |-> criticalFonts, threw |-> FALSE]
         ELSE [rule |-> [rule EXCEPT !.selectors = matched], keep |-> TRUE,
               criticalFonts |->
                 criticalFonts \o FontValues(rule.declarations),
               threw |-> FALSE]
  ELSE IF rule.type = "font-face"
  THEN [rule |-> rule, keep |-> TRUE, criticalFonts |-> criticalFonts,
        threw |-> FALSE]
  ELSE [rule |-> rule, keep |-> (~HasRules(rule) \/ rule.rules # <<>>),
        criticalFonts |-> criticalFonts, threw |-> FALSE]

\* walkStyleRules(ast, iterator) with the first callback: the nested rules
\* of a rule are walked before the callback sees the rule, and a rule stays
\* unless the callback answers false
RECURSIVE WalkPrune(_, _, _)
WalkPrune(rules, doc, criticalFonts) ==
  IF rules = <<>>
  THEN [rules |-> <<>>, criticalFonts |-> criticalFonts, threw |-> FALSE]
  ELSE
    LET r    == Head(rules)
        kids == IF HasRules(r) THEN WalkPrune(r.rules, doc, criticalFonts)
                ELSE [rules |-> <<>>, criticalFonts |-> criticalFonts,
                      threw |-> FALSE]
        r1   == IF HasRules(r) THEN [r EXCEPT !.rules = kids.rules] ELSE r
        it   == PruneRule(r1, doc, kids.criticalFonts)
        rest == WalkPrune(Tail(rules), doc, it.criticalFonts)
    IN IF kids.threw \/ it.threw \/ rest.threw
       THEN [rules |-> <<>>, criticalFonts |-> criticalFonts, threw |-> TRUE]
       ELSE [rules |-> (IF it.keep THEN <<it.rule>> ELSE <<>>) \o rest.rules,
             criticalFonts |-> rest.criticalFonts, threw |-> FALSE]

\* options.fonts === true || options.preloadFonts === true
shouldPreloadFonts(opts) == opts.fonts = "true" \/ opts.preloadFonts = "true"

\* options.fonts !== false || options.inlineFonts === true
shouldInlineFonts(opts) == opts.fonts # "false" \/ opts.inlineFonts = "true"

\* (decl.value.match(/url\s*\(\s*(['"]?)(.+?)\1\s*\)/) || [])[2]
UrlOfWord(word) ==
  CASE word = "url(/f.woff2)" -> "/f.woff2"
    [] word = "url(' /f.woff2')" -> " /f.woff2"
    [] word = "url(https://cdn.example/g.woff2)" -> "https://cdn.example/g.woff2"
    [] OTHER -> Null

UrlOfValue(value) ==
  LET hits == SelectSeq(value, LAMBDA w : UrlOfWord(w) # Null)
  IN IF hits = <<>> THEN Null ELSE UrlOfWord(Head(hits))

\* src.trim()
Trim(src) == IF src = " /f.woff2" THEN "/f.woff2" ELSE src

\* src.match(/:\/\//)
HasScheme(src) == src = "https://cdn.example/g.woff2"

\* the loop of lines 257-266: the last src and font-family declarations
SrcOf(declarations) ==
  LET idx == {i \in 1..Len(declarations) : declarations[i].property = "src"}
  IN IF idx = {} THEN Null
     ELSE UrlOfValue(declarations[CHOOSE i \in idx : \A j \in idx : j <= i].value)

FamilyOf(declarations) ==
  LET idx == {i \in 1..Len(declarations) :
                declarations[i].property = "font-family"}
  IN IF idx = {} THEN <<>>
     ELSE declarations[CHOOSE i \in idx : \A j \in idx : j <= i].value

\* preloadedFonts.indexOf(src) === -1
NotYetPreloaded(preloadedFonts, src) ==
  \A i \in 1..Len(preloadedFonts) : preloadedFonts[i] # src

\* second pass, the callback of lines 253-288 on one rule
ResolveFontFace(rule, criticalFonts, preloadedFonts, opts) ==
  IF rule.type # "font-face"
  THEN [keep |-> TRUE, preloadedFonts |-> preloadedFonts]
  ELSE
    LET family == FamilyOf(rule.declarations)
        src    == SrcOf(rule.declarations)
    IN [keep |-> ~(family = <<>> \/ src = Null
                   \/ ~IsInfix(family, criticalFonts)
                   \/ ~shouldInlineFonts(opts)),
        preloadedFonts |->
          IF src # Null /\ shouldPreloadFonts(opts)
             /\ NotYetPreloaded(preloadedFonts, src)
          THEN Append(preloadedFonts, src) ELSE preloadedFonts]

\* walkStyleRules(ast, iterator) with the second callback
RECURSIVE WalkFonts(_, _, _, _)
WalkFonts(rules, criticalFonts, preloadedFonts, opts) ==
  IF rules = <<>>
  THEN [rules |-> <<>>, preloadedFonts |-> preloadedFonts]
  ELSE
    LET r    == Head(rules)
        kids == IF HasRules(r)
                THEN WalkFonts(r.rules, criticalFonts, preloadedFonts, opts)
                ELSE [rules |-> <<>>, preloadedFonts |-> preloadedFonts]
        r1   == IF HasRules(r) THEN [r EXCEPT !.rules = kids.rules] ELSE r
        it   == ResolveFontFace(r1, criticalFonts, kids.preloadedFonts, opts)
        rest == WalkFonts(Tail(rules), criticalFonts, it.preloadedFonts, opts)
    IN [rules |-> (IF it.keep THEN <<r1>> ELSE <<>>) \o rest.rules,
        preloadedFonts |-> rest.preloadedFonts]

\* the <link rel="preload" as="font"> of lines 270-277
FontPreloadLink(id, src) ==
  [createElement(id, "link") EXCEPT
     !.rel = "preload", !.as = "font",
     !.crossorigin = IF HasScheme(src) THEN "anonymous" ELSE Null,
     !.href = Trim(src)]

RECURSIVE AppendPreloads(_, _, _)
AppendPreloads(doc, srcs, firstId) ==
  IF srcs = <<>> THEN doc
  ELSE AppendPreloads(appendChild(doc, "head",
                                  FontPreloadLink(firstId, Head(srcs))),
                      Tail(srcs), firstId + 1)

\* ------------------------------------------------- embedLinkedStylesheet
\* this.urlFilter(href), for the filter /a\.css/
UrlFilter(filter, href) == filter = "/a\\.css/" /\ href = "/a.css"

\* href.match(/^(https?:)?\/\//)
IsNetworkUrl(href) ==
  href \in {"https://cdn.example/x.css", "//cdn.example/y.css"}

\* the rule of line 121 with the pattern /^https?:\/\//, which lets the
\* protocol-relative URLs through
SkipLinkSchemeOnly(opts, href) ==
  IF opts.filter # Unset THEN UrlFilter(opts.filter, href)
  ELSE href = "https://cdn.example/x.css"

\* line 121: skip filtered resources, or network resources without filter
SkipLink(opts, href) ==
  IF opts.filter # Unset THEN UrlFilter(opts.filter, href)
  ELSE IsNetworkUrl(href)

\* lines 125-132: the loader this call may emit
cssLoaderPreamble(preloadMode) ==
  IF preloadMode = "js-lazy" THEN "function $loadcss lazy"
  ELSE "function $loadcss"

\* media || "all"
MediaOrAll(media) == IF media = Null THEN "all" ELSE media

\* lines 153-158: the <script> of the "js" and "js-lazy" strategies
LoaderScript(id, preloadMode, href, media) ==
  [createElement(id, "script") EXCEPT
     !.js = [preamble |-> cssLoaderPreamble(preloadMode), u |-> href,
             m |-> IF preloadMode = "js-lazy" THEN MediaOrAll(media)
                   ELSE Null]]

\* lines 172-175: the <link rel="stylesheet"> of the default strategy
BodyLink(id, href, media) ==
  [createElement(id, "link") EXCEPT !.rel = "stylesheet", !.media = media,
                                    !.href = href]

\* lines 181-186: <noscript><link rel="stylesheet" href media></noscript>
NoscriptNode(id, href, media) ==
  [createElement(id, "noscript") EXCEPT
     !.kids = << [createElement(id + 1, "link") EXCEPT
                    !.rel = "stylesheet", !.href = href, !.media = media] >>]

\* the move of line 148 done with insertBefore(link, body.firstChild)
MoveToBodyFront(doc, link) ==
  [removeChild(doc, link.id) EXCEPT !.body = <<link>> \o @]

\* line 148: the "body" strategy moves the link to the end of <body>
MoveToBody(doc, link) == appendChild(doc, "body", link)

\* lines 172-176: the default strategy appends a new stylesheet link
AppendBodyLink(doc, link, id) ==
  appendChild(doc, "body", BodyLink(id, link.href, link.media))

\* lines 147-177: the strategy chosen by options.preload, on a document
\* that already holds the new <style>; noscriptFallback as the code sets it
RewriteLink(opts, doc, link, id) ==
  LET mode     == opts.preload
      href     == link.href
      media    == link.media
      preload  == [link EXCEPT !.rel = "preload", !.as = "style"]
      dPreload == replaceNode(doc, preload)
  IN
  IF mode = "body"
  THEN [document |-> MoveToBody(doc, link),
        noscriptFallback |-> FALSE]
  ELSE IF mode \in {"js", "js-lazy"}
  THEN [document |-> insertAfter(dPreload, link.id,
                                 LoaderScript(id, mode, href, media)),
        noscriptFallback |-> TRUE]
  ELSE IF mode = "media"
  THEN [document |->
          replaceNode(doc, [link EXCEPT
             !.rel = "stylesheet", !.as = Null, !.media = "only x",
             !.onload = "this.media='" \o MediaOrAll(media) \o "'"]),
        noscriptFallback |-> TRUE]
  ELSE IF mode = "swap"
  THEN [document |->
          replaceNode(doc, [preload EXCEPT !.onload = "this.rel='stylesheet'"]),
        noscriptFallback |-> TRUE]
  ELSE [document |-> AppendBodyLink(dPreload, link, id),
        noscriptFallback |-> FALSE]

\* line 180 without the test of options.noscriptFallback
InsertsNoscriptAlways(opts, noscriptFallback) == noscriptFallback

\* line 180
InsertsNoscript(opts, noscriptFallback) ==
  opts.noscriptFallback # "false" /\ noscriptFallback

\* line 137 done with insertBefore(style, link)
InsertStyleBefore(doc, linkId, style) ==
  IF parentNode(doc, linkId) = "head"
  THEN [doc EXCEPT !.head = InsertAt(@, IndexOf(@, linkId) - 1, style)]
  ELSE [doc EXCEPT !.body = InsertAt(@, IndexOf(@, linkId) - 1, style)]

\* lines 134-140: the new <style> goes right after the link
InsertStyle(doc, linkId, style) == insertAfter(doc, linkId, style)

\* embedLinkedStylesheet(link, cssFiles): the document after the call.
\* Node ids id .. id+3 are the new nodes' identities.
embedLinkedStylesheet(opts, files, doc, linkId, id) ==
  LET link    == NodeById(doc, linkId)
      href    == link.href
      media   == link.media
      style   == [StyleNode(id, IF href \in DOMAIN files THEN "css"
                                ELSE "undefined",
                            IF href \in DOMAIN files THEN files[href]
                            ELSE <<>>)
                    EXCEPT !.name = href]
      dStyle  == InsertStyle(doc, linkId, style)
      rewrite == RewriteLink(opts, dStyle, link, id + 1)
  IN
  IF SkipLink(opts, href) THEN doc
  ELSE IF opts.preload = "false" THEN dStyle
  ELSE IF InsertsNoscript(opts, rewrite.noscriptFallback)
  THEN insertAfter(rewrite.document, linkId, NoscriptNode(id + 2, href, media))
  ELSE rewrite.document

\* ----------------------------------------------------------- processStyle
\* lines 290-305: the style is removed when nothing is left of its sheet,
\* else its text is replaced by the reduced sheet
WriteBack(doc, style, rules) ==
  IF rules = <<>> THEN removeChild(doc, style.id)
  ELSE replaceNode(doc, [style EXCEPT !.sheet = rules])

\* processStyle(style): the document after the call and whether it threw.
\* Node ids from id on are the identities of the new preload links.
processStyle(opts, doc, styleId, id) ==
  LET style == NodeById(doc, styleId)
      pass1 == WalkPrune(style.sheet, doc, <<>>)
      pass2 == WalkFonts(pass1.rules, pass1.criticalFonts, <<>>, opts)
  IN
  IF style.text # "css" \/ style.sheet = <<>>
  THEN [document |-> doc, threw |-> FALSE, created |-> 0]
  ELSE IF pass1.threw
  THEN [document |-> doc, threw |-> TRUE, created |-> 0]
  ELSE [document |->
          WriteBack(AppendPreloads(doc, pass2.preloadedFonts, id),
                    style, pass2.rules),
        threw |-> FALSE, created |-> Len(pass2.preloadedFonts)]

\* ------------------------------------------------------------------ state
VARIABLES
  options,         \* this.options
  cssFiles,        \* the href -> stylesheet mapping given to process()
  html,            \* the parsed input document
  document,        \* the document process() mutates
  pc,              \* where process() stands
  externalSheets,  \* the queried links (ids), one task each
  linkIdx,         \* the next link task Array.map starts
  styles,          \* the queried styles (ids), one task each
  styleIdx,        \* the next style task Array.map starts
  error,           \* the first error a task's promise was rejected with
  nextId           \* identity of the next created node

vars == <<options, cssFiles, html, document, pc, externalSheets, linkIdx,
          styles, styleIdx, error, nextId>>

\* ----------------------------------------------------------------- inputs
PreloadModes == {Unset, "body", "media", "swap", "js", "js-lazy", "false"}

Words(w) == <<w>>

ColorDecl == Decl("color", Words("red"))
FontDecl  == Decl("font-family", Words("X"))
SrcDecl   == Decl("src", Words("url(/f.woff2)"))

\* the rules input stylesheets are made of
RulePool ==
  { StyleRule(<< <<"p">> >>, <<ColorDecl, FontDecl>>),
    StyleRule(<< <<"q">> >>, <<FontDecl>>),
    StyleRule(<< <<"p", ":hover">>, <<"q">> >>, <<ColorDecl>>),
    StyleRule(<< <<"::before">> >>, <<ColorDecl>>),
    StyleRule(<< <<"p">>, <<"!">> >>, <<ColorDecl>>),
    FontFaceRule(<<Decl("font-family", Words("X")), SrcDecl>>),
    FontFaceRule(<<Decl("font-family", Words("Y")), SrcDecl>>),
    FontFaceRule(<<Decl("font-family", Words("X")),
                   Decl("src", Words("url(' /f.woff2')"))>>),
    FontFaceRule(<<Decl("font-family", Words("X")),
                   Decl("src", <<"local(X),",
                                 "url(https://cdn.example/g.woff2)">>)>>),
    FontFaceRule(<<Decl("src", Words("local(X)"))>>),
    ContainerRule(<<StyleRule(<< <<"q">> >>, <<ColorDecl>>)>>),
    ContainerRule(<<FontFaceRule(<<Decl("font-family", Words("Y")),
                                   SrcDecl>>)>>),
    ContainerRule(<<StyleRule(<< <<"p">> >>, <<FontDecl>>),
                    FontFaceRule(<<Decl("font-family", Words("X")),
                                   SrcDecl>>)>>) }

SheetsUpTo(n) == UNION { [1..k -> RulePool] : k \in 0..n }

\* the stylesheets the links of the inputs refer to
SheetA     == << StyleRule(<< <<"p">> >>, <<ColorDecl, FontDecl>>),
                 StyleRule(<< <<"q">> >>, <<ColorDecl>>),
                 FontFaceRule(<<Decl("font-family", Words("X")), SrcDecl>>) >>
SheetEmpty == << StyleRule(<< <<"q">> >>, <<ColorDecl>>) >>
SheetCdn   == << StyleRule(<< <<"p">> >>, <<ColorDecl>>) >>

CssFiles ==
  [h \in {"/a.css", "/unused.css", "https://cdn.example/x.css"} |->
     IF h = "/a.css" THEN SheetA
     ELSE IF h = "/unused.css" THEN SheetEmpty ELSE SheetCdn]

LinkPool ==
  { <<"/a.css", "print">>, <<"/unused.css", Null>>,
    <<"/missing.css", Null>>, <<"https://cdn.example/x.css", Null>>,
    <<"//cdn.example/y.css", "print">> }

DefaultOptions ==
  [external |-> Unset, preload |-> Unset, noscriptFallback |-> Unset,
   filter |-> Unset, fonts |-> Unset, inlineFonts |-> Unset,
   preloadFonts |-> Unset]

\* <head>links 1..k</head><body><p></p>links k+1..n</body>
LinkDocument(links, k) ==
  LET n == Len(links)
      node(i) == LinkNode(i, links[i][1], links[i][2])
  IN [head |-> [i \in 1..k |-> node(i)],
      body |-> <<ElementNode(n + 1, "p")>>
               \o [i \in 1..(n - k) |-> node(k + i)]]

\* <head><style>sheet</style>[<link href="/a.css">]</head><body><p></p></body>
StyleDocument(sheet, withLink) ==
  [head |-> <<StyleNode(1, IF sheet = <<>> THEN "none" ELSE "css", sheet)>>
            \o (IF withLink THEN <<LinkNode(2, "/a.css", Null)>> ELSE <<>>),
   body |-> <<ElementNode(3, "p")>>]

MaxId(doc) ==
  LET ids == {AllNodes(doc)[i].id : i \in 1..Len(AllNodes(doc))}
  IN CHOOSE m \in ids : \A j \in ids : j <= m

\* inputs that vary the links and the delivery options
InitDelivery ==
  /\ \E p \in PreloadModes, nf \in {Unset, "false"}, ex \in {Unset, "false"},
        f \in {Unset, "/a\\.css/"} :
       options = [DefaultOptions EXCEPT !.preload = p, !.noscriptFallback = nf,
                                        !.external = ex, !.filter = f]
  /\ \E n \in 1..MaxLinks :
       \E links \in [1..n -> LinkPool], k \in 0..n :
          html = LinkDocument(links, k)

\* inputs that vary an inline stylesheet and the font options
InitStyle ==
  /\ \E fo \in TriState, inl \in TriState, pre \in TriState :
       options = [DefaultOptions EXCEPT !.fonts = fo, !.inlineFonts = inl,
                                        !.preloadFonts = pre]
  /\ \E sheet \in SheetsUpTo(MaxRules), withLink \in BOOLEAN :
       html = StyleDocument(sheet, withLink)

Init ==
  /\ InitDelivery \/ InitStyle
  /\ cssFiles = CssFiles
  /\ document = html
  /\ pc = "start"
  /\ externalSheets = <<>>
  /\ linkIdx = 1
  /\ styles = <<>>
  /\ styleIdx = 1
  /\ error = NoError
  /\ nextId = MaxId(html) + 1

\* ---------------------------------------------------------------- actions
\* process(), lines 88-94: the links are queried once, before any task
QueryLinks ==
  /\ pc = "start"
  /\ externalSheets' = IF options.external # "false"
                       THEN RelStylesheetLinks(document) ELSE <<>>
  /\ pc' = "links"
  /\ UNCHANGED <<options, cssFiles, html, document, linkIdx, styles,
                 styleIdx, error, nextId>>

\* lines 95-97: Array.map starts the next link's task, which runs to its end
EmbedLinkedStylesheet ==
  /\ pc = "links"
  /\ linkIdx <= Len(externalSheets)
  /\ document' = embedLinkedStylesheet(options, cssFiles, document,
                                       externalSheets[linkIdx], nextId)
  /\ nextId' = nextId + 4
  /\ linkIdx' = linkIdx + 1
  /\ UNCHANGED <<options, cssFiles, html, pc, externalSheets, styles,
                 styleIdx, error>>

\* line 101: the styles are queried after every link task has ended
QueryStyles ==
  /\ pc = "links"
  /\ linkIdx > Len(externalSheets)
  /\ styles' = StyleElements(document)
  /\ pc' = "styles"
  /\ UNCHANGED <<options, cssFiles, html, document, externalSheets, linkIdx,
                 styleIdx, error, nextId>>

\* line 102: Array.map starts the next style's task; a task that throws
\* leaves a rejected promise and the map goes on
ProcessStyle ==
  /\ pc = "styles"
  /\ styleIdx <= Len(styles)
  /\ NodeById(document, styles[styleIdx]).text # "undefined"
  /\ LET r == processStyle(options, document, styles[styleIdx], nextId)
     IN /\ document' = r.document
        /\ error' = IF error = NoError /\ r.threw THEN SelectorError
                     ELSE error
        /\ nextId' = nextId + r.created
  /\ styleIdx' = styleIdx + 1
  /\ UNCHANGED <<options, cssFiles, html, pc, externalSheets, linkIdx, styles>>

\* the same task on a <style> whose text node was made from undefined: the
\* DOM provider either keeps undefined as the node's value, and the task
\* returns at line 208, or turns it into the text "undefined", which the
\* CSS parser rejects
ProcessUndefinedStyle ==
  /\ pc = "styles"
  /\ styleIdx <= Len(styles)
  /\ NodeById(document, styles[styleIdx]).text = "undefined"
  /\ error' \in {error, IF error = NoError THEN ParseError ELSE error}
  /\ styleIdx' = styleIdx + 1
  /\ UNCHANGED <<options, cssFiles, html, document, pc, externalSheets,
                 linkIdx, styles, nextId>>

\* line 105: every promise is fulfilled, process() returns the document
Resolve ==
  /\ pc = "styles"
  /\ styleIdx > Len(styles)
  /\ error = NoError
  /\ pc' = "done"
  /\ UNCHANGED <<options, cssFiles, html, document, externalSheets, linkIdx,
                 styles, styleIdx, error, nextId>>

\* line 102: Promise.all rejects, and process() with it
Reject ==
  /\ pc = "styles"
  /\ styleIdx > Len(styles)
  /\ error # NoError
  /\ pc' = "rejected"
  /\ UNCHANGED <<options, cssFiles, html, document, externalSheets, linkIdx,
                 styles, styleIdx, error, nextId>>

Next ==
  \/ QueryLinks
  \/ EmbedLinkedStylesheet
  \/ QueryStyles
  \/ ProcessStyle
  \/ ProcessUndefinedStyle
  \/ Resolve
  \/ Reject

Spec == Init /\ [][Next]_vars

\* ----------------------------------------------------- notions of claims
Range(seq) == {seq[i] : i \in 1..Len(seq)}

Nodes == AllNodes(document)

InputNodes == Range(AllNodes(html))

InputLinks == {n \in InputNodes : n.tag = "link"}

IsInput(id) == id <= MaxId(html)

\* every link task has ended
LinksDone == pc \in {"styles", "done", "rejected"}

\* the link is one embedLinkedStylesheet runs on and does not skip
Rewritten(l) == options.external # "false" /\ ~SkipLink(options, l.href)

SiblingsOf(doc, id) ==
  IF parentNode(doc, id) = "head" THEN doc.head ELSE doc.body

\* node.nextSibling / node.previousSibling; BlankNode when there is none
NextSibling(doc, id) ==
  LET sibs == SiblingsOf(doc, id)
      i    == IndexOf(sibs, id)
  IN IF i < Len(sibs) THEN sibs[i + 1] ELSE BlankNode

PreviousSibling(doc, id) ==
  LET sibs == SiblingsOf(doc, id)
      i    == IndexOf(sibs, id)
  IN IF i > 1 THEN sibs[i - 1] ELSE BlankNode

\* no created node refers to href: no <style> made of it, no loader
\* <script> for it, no <noscript> around it, no new <link> to it
NoNodeMadeFor(href) ==
  \A n \in Range(Nodes) :
     ~IsInput(n.id) =>
        /\ n.name # href
        /\ n.js.u # href
        /\ n.href # href
        /\ \A k \in Range(n.kids) : k.href # href

\* an input node that no strategy moves
Stationary(m) ==
  ~(m.tag = "link" /\ Rewritten(m) /\ options.preload = "body")

\* l stands where it stood among the input nodes that nothing moves
KeepsPlace(l) ==
  /\ parentNode(document, l.id) = parentNode(html, l.id)
  /\ \A m \in InputNodes :
       (/\ Stationary(m) /\ InSeq(Nodes, m.id)
        /\ parentNode(html, m.id) = parentNode(html, l.id))
       => /\ parentNode(document, m.id) = parentNode(document, l.id)
          /\ (IndexOf(SiblingsOf(document, l.id), m.id)
                < IndexOf(SiblingsOf(document, l.id), l.id))
             <=> (IndexOf(SiblingsOf(html, l.id), m.id)
                    < IndexOf(SiblingsOf(html, l.id), l.id))

\* the link is as it was in the input and nothing was made for it
Untouched(l) ==
  /\ InSeq(Nodes, l.id)
  /\ NodeById(document, l.id) = l
  /\ KeepsPlace(l)
  /\ NoNodeMadeFor(l.href)

LoaderScripts ==
  {i \in 1..Len(Nodes) : Nodes[i].tag = "script" /\ Nodes[i].js.preamble # ""}

\* ----------------------------------------------------------------- claims
\* C1: the body of the shared $loadcss loader is in at most one injected
\* <script> of the document, the first one; every later script holds only
\* the $loadcss(...) call.
C1_LoaderEmittedAtMostOnce ==
  /\ Cardinality(LoaderScripts) <= 1
  /\ \A i \in LoaderScripts :
        \A j \in 1..(i - 1) : Nodes[j].tag # "script"

\* C2: a link whose href is no key of cssFiles (and that the filter/network
\* rule does not skip) is skipped: no <style>, <script>, <noscript> or body
\* link is made for it, its attributes and position stay, and process()
\* is not rejected because of it.
C2_MissingSheetLinkSkipped ==
  /\ LinksDone =>
       \A l \in InputLinks :
          (l.href \notin DOMAIN cssFiles /\ ~SkipLink(options, l.href))
          => Untouched(l)
  /\ error # ParseError

\* C5: without a filter option, a link whose href is a network URL
\* (^(https?:)?//) is left untouched under every preload strategy, even
\* when cssFiles has an entry for the href: same attributes, same position,
\* and no <style>, <script>, <noscript> or <link> made for it.
C5_NetworkLinkUntouched ==
  \A l \in InputLinks :
     (options.filter = Unset /\ IsNetworkUrl(l.href)) => Untouched(l)

\* C5 witness: every link task has ended under a rewriting strategy, one of
\* them on a network link that cssFiles has an entry for, another on a link
\* that was rewritten
C5_Witness ==
  /\ pc = "done"
  /\ options.filter = Unset /\ options.external = Unset
  /\ options.preload = "swap"
  /\ \E l \in InputLinks : IsNetworkUrl(l.href) /\ l.href \in DOMAIN cssFiles
  /\ \E l \in InputLinks : Rewritten(l) /\ NodeById(document, l.id) # l

\* ---- fonts
\* every rule of a sheet, the nested ones included
RECURSIVE Flatten(_)
Flatten(rules) ==
  IF rules = <<>> THEN <<>>
  ELSE <<Head(rules)>> \o Flatten(Head(rules).rules) \o Flatten(Tail(rules))

FontFacesOf(rules) == {r \in Range(Flatten(rules)) : r.type = "font-face"}

\* the font flags as the options are documented
DocumentedInline(opts) ==
  IF opts.fonts = "true" THEN TRUE
  ELSE IF opts.fonts = "false" THEN FALSE
  ELSE opts.inlineFonts = "true"

DocumentedPreload(opts) ==
  IF opts.fonts = "true" THEN TRUE ELSE opts.preloadFonts # "false"

\* the sheets processStyle is run on: the inline ones and the embedded ones
ProcessedSheets ==
  {n.sheet : n \in {m \in InputNodes : m.tag = "style"}}
  \cup {cssFiles[l.href] :
          l \in {m \in InputLinks : Rewritten(m) /\ m.href \in DOMAIN cssFiles}}

FontPreloads ==
  {i \in 1..Len(document.head) :
     /\ document.head[i].tag = "link"
     /\ document.head[i].rel = "preload"
     /\ document.head[i].as = "font"}

UsedFontFace == FontFaceRule(<<Decl("font-family", Words("X")), SrcDecl>>)
UsingRule    == StyleRule(<< <<"p">> >>, <<ColorDecl, FontDecl>>)

\* C3: fonts === true forces inlining and preloading on; fonts === false
\* forces inlining off and leaves preloading to preloadFonts (default true);
\* fonts unset gives inlining = inlineFonts (default false) and preloading =
\* preloadFonts (default true).  A font of the processed sheets is preloaded
\* exactly when preloading is on, a used @font-face rule is kept when
\* inlining is on, and no @font-face rule is in the output when it is off.
C3_FontFlagsAsDocumented ==
  pc = "done" =>
    /\ \A sheet \in ProcessedSheets : \A r \in FontFacesOf(sheet) :
          SrcOf(r.declarations) # Null =>
            ((\E i \in FontPreloads :
                 document.head[i].href = Trim(SrcOf(r.declarations)))
             <=> DocumentedPreload(options))
    /\ ~DocumentedInline(options) =>
          \A n \in Range(Nodes) : n.tag = "style" => FontFacesOf(n.sheet) = {}
    /\ (/\ DocumentedInline(options)
        /\ \E n \in InputNodes :
              n.tag = "style" /\ n.sheet = <<UsingRule, UsedFontFace>>)
       => \E n \in Range(Nodes) :
             n.tag = "style" /\ UsedFontFace \in Range(n.sheet)

\* C4: with font preloading on, the @font-face rules of one process() call
\* that have the same src URL, in one stylesheet or in several, give one
\* <link rel="preload" as="font"> in <head>: there are no more font preload
\* links than there are different src URLs in the processed stylesheets.
C4_OneFontPreloadPerUrl ==
  Cardinality(FontPreloads)
    <= Cardinality({SrcOf(r.declarations) :
                      r \in UNION {FontFacesOf(sheet) :
                                     sheet \in ProcessedSheets}} \ {Null})

\* C7: after both passes of processStyle every StyleRule still in the sheet
\* has a selector and every ContainerRule still in it has a nested rule.
C7_NoEmptyRuleRetained ==
  pc = "done" =>
    \A n \in Range(Nodes) :
       (n.tag = "style" /\ n.text = "css") =>
          \A r \in Range(Flatten(n.sheet)) :
             /\ r.type = "rule" => r.selectors # <<>>
             /\ HasRules(r) => r.rules # <<>>

\* C8: a selector that is empty or invalid once its pseudo tokens are
\* stripped counts as matching nothing; no error of the DOM query reaches
\* the caller of process().
C8_MalformedSelectorNotPropagated == error # SelectorError

\* ---- delivery
IsNoscriptFor(n, l) ==
  /\ n.tag = "noscript"
  /\ Len(n.kids) = 1
  /\ n.kids[1].tag = "link"
  /\ n.kids[1].rel = "stylesheet"
  /\ n.kids[1].href = l.href
  /\ n.kids[1].media = l.media
  /\ n.kids[1].as = Null /\ n.kids[1].onload = Null

StyleRulesOf(rules) == {r \in Range(Flatten(rules)) : r.type = "rule"}

Matches(sel) == /\ ~QuerySelectorRaises(StripPseudo(sel))
                /\ QuerySelectorFinds(document, StripPseudo(sel))

\* the sheet holds critical rules only: each style rule has a selector, and
\* every selector it has matches an element of the document
OnlyCritical(rules) ==
  \A r \in StyleRulesOf(rules) :
     r.selectors # <<>> /\ \A sel \in Range(r.selectors) : Matches(sel)

\* some style rule of the sheet is critical
HasCritical(rules) ==
  \E r \in StyleRulesOf(rules) : \E sel \in Range(r.selectors) : Matches(sel)

SwapLink(l) ==
  [l EXCEPT !.rel = "preload", !.as = "style",
            !.onload = "this.rel='stylesheet'"]

SwapRun ==
  pc = "done" /\ options.preload = "swap" /\ options.noscriptFallback # "false"

\* C6 (as claimed, for the links whose stylesheet has a critical rule): with
\* preload "swap" the link ends as <link rel="preload" as="style" href=U
\* onload="this.rel='stylesheet'">, the <noscript> fallback follows it and
\* the inlined <style> of U's critical rules precedes it.
C6_StyleBeforeSwapLink ==
  SwapRun =>
    \A l \in InputLinks :
       (/\ Rewritten(l) /\ l.href \in DOMAIN cssFiles
        /\ HasCritical(cssFiles[l.href]))
       => /\ NodeById(document, l.id) = SwapLink(l)
          /\ IsNoscriptFor(NextSibling(document, l.id), l)
          /\ LET s == PreviousSibling(document, l.id)
             IN s.tag = "style" /\ s.name = l.href /\ OnlyCritical(s.sheet)

\* C6 (amended): with preload "swap" the link ends as <link rel="preload"
\* as="style" href=U onload="this.rel='stylesheet'">, the <noscript>
\* fallback is its next sibling, and the inlined <style> of U comes right
\* after the <noscript> (order: link, noscript, style).  The style holds
\* critical rules only; it is absent exactly when it was emptied, and then
\* no rule of U's stylesheet is critical.
C6_SwapLinkNoscriptStyle ==
  SwapRun =>
    \A l \in InputLinks :
       Rewritten(l)
       => /\ NodeById(document, l.id) = SwapLink(l)
          /\ IsNoscriptFor(NextSibling(document, l.id), l)
          /\ LET s == NextSibling(document, NextSibling(document, l.id).id)
             IN \/ /\ s.tag = "style" /\ s.name = l.href
                   /\ IF l.href \in DOMAIN cssFiles
                      THEN s.text = "css" /\ s.sheet # <<>>
                           /\ OnlyCritical(s.sheet)
                      ELSE s.text = "undefined"
                \/ /\ \A n \in Range(Nodes) : n.name # l.href
                   /\ l.href \in DOMAIN cssFiles
                   /\ ~HasCritical(cssFiles[l.href])

\* C6 witness: a swap run has ended on a document with a link (with a media
\* attribute) whose sheet has critical rules and a link whose sheet has none
C6_Witness ==
  /\ SwapRun
  /\ \E l \in InputLinks :
        Rewritten(l) /\ l.href = "/a.css" /\ l.media = "print"
  /\ \E l \in InputLinks : Rewritten(l) /\ l.href = "/unused.css"

RewrittenLinks == {l \in InputLinks : Rewritten(l)}

NoscriptWanted ==
  /\ options.preload \in {"media", "swap", "js", "js-lazy"}
  /\ options.noscriptFallback # "false"

\* C9: a processed link gets a <noscript> fallback if and only if
\* options.preload is "media", "swap", "js" or "js-lazy" and
\* options.noscriptFallback is not false; there is then one per link, it is
\* the link's next sibling, and it wraps a <link rel="stylesheet"> with the
\* link's original href and original media.
C9_NoscriptFallback ==
  LinksDone =>
    /\ \A l \in RewrittenLinks :
          IsNoscriptFor(NextSibling(document, l.id), l) <=> NoscriptWanted
    /\ Cardinality({i \in 1..Len(Nodes) : Nodes[i].tag = "noscript"})
         = IF NoscriptWanted THEN Cardinality(RewrittenLinks) ELSE 0

\* C9 witness: a "media" run has ended with its fallbacks in the document,
\* one of them for a link that had a media attribute
C9_Witness ==
  /\ pc = "done"
  /\ options.preload = "media" /\ options.noscriptFallback = Unset
  /\ Cardinality(RewrittenLinks) >= 2
  /\ \E l \in RewrittenLinks :
        l.media = "print" /\ IsNoscriptFor(NextSibling(document, l.id), l)

\* the processed links in the order of the input document
RewrittenInOrder ==
  LET ids == IF options.external # "false" THEN RelStylesheetLinks(html)
             ELSE <<>>
      all == [i \in 1..Len(ids) |-> NodeById(html, ids[i])]
  IN SelectSeq(all, Rewritten)

\* C10: for preload "body" (the links are moved) and for the default
\* strategy (new links are appended) the stylesheet links at the end of
\* <body> stand in the order their originating links had in the input, one
\* for each processed link; appended links are not processed again.
C10_BodyLinksKeepOrder ==
  (LinksDone /\ options.preload \in {"body", Unset}) =>
    LET P    == RewrittenInOrder
        body == document.body
        k    == Len(P)
        from == Len(body) - k
    IN /\ from >= 0
       /\ \A i \in 1..k :
             /\ body[from + i].tag = "link"
             /\ body[from + i].rel = "stylesheet"
             /\ body[from + i].href = P[i].href
             /\ body[from + i].media = P[i].media
             /\ IF options.preload = "body"
                THEN body[from + i] = P[i]
                ELSE /\ ~IsInput(body[from + i].id)
                     /\ NodeById(document, P[i].id).rel = "preload"
       /\ \A n \in Range(Nodes) :
             (/\ n.tag = "link" /\ n.rel = "stylesheet"
              /\ ~(n \in InputLinks /\ ~Rewritten(n)))
             => \E i \in 1..k : body[from + i] = n
       /\ Len(externalSheets) <= Cardinality(InputLinks)

\* C10 witness: a "body" run has moved three links or two with different
\* hrefs to the end of <body>
C10_Witness ==
  /\ pc = "done" /\ options.preload = "body"
  /\ Len(RewrittenInOrder) >= 2
  /\ RewrittenInOrder[1].href # RewrittenInOrder[2].href
  /\ parentNode(html, RewrittenInOrder[1].id) = "head"

====
